---- MODULE Spec2Model ----
(***************************************************************************)
(* Model of kitectl/release.py: main() compiles the kite tool, reads its   *)
(* version, packages it for the platform, optionally uploads the package   *)
(* to the S3 bucket 'kite-cli' and runs the platform's post-build action.  *)
(*                                                                         *)
(* Strings are sequences of tokens (a token is a character or a literal    *)
(* fragment of a format string), so that "%s" formatting is concatenation  *)
(* and str.split / str.strip are computed as Python computes them.         *)
(***************************************************************************)
EXTENDS Integers, Sequences, FiniteSets, TLC

\* Number of invocations of release.py that are explored.
MaxRuns == 2

VARIABLES
    pc,            \* position of the running main()
    runs,          \* number of invocations so far
    args,          \* argparse result: [upload, overwrite]
    environ,       \* names of the credential variables present in os.environ
    sys_platform,  \* sys.platform
    platform,      \* "linux" | "osx" | "" (not decided)
    workdir,       \* main()'s tempfile.mkdtemp(): "absent" | "present" | "removed"
    stagingdir,    \* build_linux()'s tempfile.mkdtemp(), same values
    compile_rc,    \* exit status of "go build" (-1: not invoked)
    version,       \* stripped output of "kite version"
    package,       \* file name returned by the builder
    formula_str,   \* postbuild_osx's rendered formula
    bucket,        \* S3 bucket 'kite-cli': key name -> [body, public]
    cwd,           \* files of the current working directory: name -> body
    exit_code,     \* process exit status (-1: running or not started)
    reason,        \* which condition ended the run
    steps,         \* orchestrator states this run has entered, in order
    remote_calls,  \* S3 operations this run has performed
    cred_read,     \* TRUE once this run read os.environ['AWS_KEY'/'AWS_SECRET']
    bucket0,       \* the bucket when this run was invoked
    cwd0,          \* the working directory when this run was invoked
    premise_runs,  \* every finished run was osx --upload with a well-formed
                   \* version, and completed or aborted at a remote call
    ow_aborted     \* some finished run given --overwrite aborted at a remote call

vars == <<pc, runs, args, environ, sys_platform, platform, workdir, stagingdir,
          compile_rc, version, package, formula_str, bucket, cwd, exit_code,
          reason, steps, remote_calls, cred_read, bucket0, cwd0, premise_runs,
          ow_aborted>>

----------------------------------------------------------------------------
\* Inputs

\* Raw standard output of "<binpath> version".
VersionOutputs ==
    { <<"0", ".", "0", ".", "1", "\n">>,
      <<"0", ".", "1", "\n">>,
      <<"0", ".", "0", ".", "0", ".", "1", "\n">>,
      <<"0", ".", ".", "1", "\n">>,
      <<"\n">> }

\* Bytes a builder may write into the package file.
Contents == {"A", "B"}

SysPlatforms == {"linux2", "darwin", "win32"}

CredentialVars == {"AWS_KEY", "AWS_SECRET"}

----------------------------------------------------------------------------
\* Strings

Whitespace == {" ", "\n", "\t"}

RECURSIVE LStrip(_)
LStrip(s) ==
    IF s # <<>> /\ Head(s) \in Whitespace THEN LStrip(Tail(s)) ELSE s

RECURSIVE RStrip(_)
RStrip(s) ==
    IF s # <<>> /\ s[Len(s)] \in Whitespace
    THEN RStrip(SubSeq(s, 1, Len(s) - 1))
    ELSE s

\* str.strip()
Strip(s) == RStrip(LStrip(s))

\* str.split("."): every "." separates, empty pieces are kept.
RECURSIVE Split(_)
Split(s) ==
    IF s = <<>> THEN << <<>> >>
    ELSE LET rest == Split(Tail(s))
         IN  IF Head(s) = "."
             THEN << <<>> >> \o rest
             ELSE << <<Head(s)>> \o Head(rest) >> \o Tail(rest)

\* Variant: the darwin test is always true.
StartsWith_DarwinAlways(name, prefix) ==
    \/ prefix = "linux" /\ name \in {"linux", "linux2"}
    \/ prefix = "darwin"

\* sys.platform.startswith(prefix), for the interpreter's platform names.
StartsWith(name, prefix) ==
    \/ prefix = "linux" /\ name \in {"linux", "linux2"}
    \/ prefix = "darwin" /\ name = "darwin"

\* The condition of main()'s assert on the version.
VersionAccepted(v) == Len(Split(v)) = 3

\* "kite-%s-osx.tar.gz" % version
TarName(v) == <<"kite-">> \o v \o <<"-osx.tar.gz">>

\* "%s.deb" % ("kite-%s-linux" % version)
DebName(v) == <<"kite-">> \o v \o <<"-linux">> \o <<".deb">>

FormulaKeyName == <<"kite.rb">>

\* Variant: the key is spelled as in the progress message.
LatestKeyName_Dotted == <<"kite-latest.linux.deb">>

LatestKeyName == <<"kite-latest-linux.deb">>

\* Key.generate_url(expires_in=0, query_auth=False)
GenerateUrl(key) == <<"https://kite-cli.s3.amazonaws.com/">> \o key

\* "http://127.0.0.1:8000/%s" % package_name
LocalUrl(name) == <<"http://127.0.0.1:8000/">> \o name

\* hashlib.sha1 hex digest of a file's bytes, collision free.
Sha1(bytes) == <<"sha1:", bytes>>

\* Contents of a file or of an S3 object.
FileBody(bytes) == [kind |-> "file", bytes |-> bytes, url |-> <<>>, sha1 |-> <<>>]

\* BREW_FORMULA.format(url=url, sha1=sha1)
BREW_FORMULA(url, sha1) == [kind |-> "formula", bytes |-> "", url |-> url, sha1 |-> sha1]

NoFormula == [kind |-> "none", bytes |-> "", url |-> <<>>, sha1 |-> <<>>]

\* sha1_file(path) of a file of the working directory.
sha1_file(files, path) == Sha1(files[path].bytes)

----------------------------------------------------------------------------
\* File system and S3

\* shutil.rmtree(dir)
Rmtree(dir) == "removed"

\* Writing a file: creates or replaces it.
WriteFile(files, name, body) ==
    [n \in DOMAIN files \cup {name} |-> IF n = name THEN body ELSE files[n]]

\* A path that does not exist on disk.
RemoveFile(files, name) == [n \in DOMAIN files \ {name} |-> files[n]]

\* Key.exists()
KeyExists(b, key) == key \in DOMAIN b

\* Key.set_contents_from_filename / set_contents_from_string: the object is
\* created or replaced, with the default (private) ACL.
SetContents(b, key, body) ==
    [k \in DOMAIN b \cup {key} |->
        IF k = key THEN [body |-> body, public |-> FALSE] ELSE b[k]]

\* Key.make_public()
MakePublic(b, key) == [b EXCEPT ![key].public = TRUE]

EmptyMap == [k \in {} |-> FileBody("")]

----------------------------------------------------------------------------
\* Conditions of main() and of the post-build functions

\* "if args.upload:" before the credentials are read.
NeedsCredentials(a) == a.upload

\* os.environ['AWS_KEY'] or os.environ['AWS_SECRET'] raises KeyError.
CredentialMissing(env) == ~(CredentialVars \subseteq env)

\* The else branch of the platform decision.
UnsupportedPlatform(sp) == ~StartsWith(sp, "linux") /\ ~StartsWith(sp, "darwin")

\* Variant: the compiler's exit status is not checked.
CompileFailed_Ignored(rc) == FALSE

\* subprocess.check_call raised CalledProcessError.
CompileFailed(rc) == rc # 0

\* "if not os.path.exists(package):"
BuildUnsuccessful(files, path) == path \notin DOMAIN files

\* Variant: the "not" of the overwrite guard is missing.
AlreadyUploaded_Inverted(b, key, a) == KeyExists(b, key) /\ a.overwrite

\* Variant: no overwrite guard.
AlreadyUploaded_NeverRefuses(b, key, a) == FALSE

\* "if package_key.exists() and not args.overwrite:"
AlreadyUploaded(b, key, a) == KeyExists(b, key) /\ ~a.overwrite

\* Variant: the formula is uploaded only with --overwrite.
FormulaUploadRequested_NeedsOverwrite(a) == a.upload /\ a.overwrite

\* "if args.upload:" of postbuild_osx, for the formula upload.
FormulaUploadRequested(a) == a.upload

\* Variant: the alias is uploaded without looking at --upload.
LatestUploadRequested_Always(a) == TRUE

\* "if args.upload:" of postbuild_linux.
LatestUploadRequested(a) == a.upload

\* Variant: no cleanup of the workspace.
MainFinally_Skipped(dir) == dir

\* The finally clause of main().
MainFinally(dir) == Rmtree(dir)

\* Variant: no cleanup of the staging directory.
BuildLinuxFinally_Skipped(dir) == dir

\* The finally clause of build_linux().
BuildLinuxFinally(dir) == Rmtree(dir)

FormulaFileName == <<"kite.rb">>

----------------------------------------------------------------------------
\* Control

Terminal == {"Done", "Failure"}

RemoteAbort == "RemoteError"

\* The version splits into exactly 3 non-empty dot-separated components.
ThreeNonEmptyComponents(v) ==
    LET parts == Split(v)
    IN  /\ Len(parts) = 3
        /\ \A i \in 1..Len(parts) : parts[i] # <<>>

\* Move to the next position of the same run.
Goto(label, st) ==
    /\ pc' = label
    /\ steps' = st
    /\ UNCHANGED <<workdir, exit_code, reason, premise_runs, ow_aborted>>

\* An exception or sys.exit(1) inside main()'s try block: the finally clause
\* runs and the process exits with status 1.
Fail(why, st) ==
    /\ pc' = "Failure"
    /\ steps' = Append(st, "Failure")
    /\ exit_code' = 1
    /\ reason' = why
    /\ workdir' = MainFinally(workdir)
    /\ premise_runs' = (premise_runs /\ platform = "osx" /\ args.upload
                                     /\ ThreeNonEmptyComponents(version)
                                     /\ why = RemoteAbort)
    /\ ow_aborted' = (ow_aborted \/ (args.upload /\ args.overwrite
                                                /\ why = RemoteAbort))

\* main() falls off the end of its try block.
Finish(st) ==
    /\ pc' = "Done"
    /\ steps' = Append(st, "Done")
    /\ exit_code' = 0
    /\ reason' = ""
    /\ workdir' = MainFinally(workdir)
    /\ premise_runs' = (premise_runs /\ platform = "osx" /\ args.upload
                                     /\ ThreeNonEmptyComponents(version))
    /\ UNCHANGED ow_aborted

Remote(op) == remote_calls' = remote_calls \cup {op}

inputs == <<runs, args, environ, sys_platform, bucket0, cwd0>>

----------------------------------------------------------------------------
Init ==
    /\ pc = "NotStarted"
    /\ runs = 0
    /\ args = [upload |-> FALSE, overwrite |-> FALSE]
    /\ environ = {}
    /\ sys_platform = "linux2"
    /\ platform = ""
    /\ workdir = "absent"
    /\ stagingdir = "absent"
    /\ compile_rc = -1
    /\ version = <<>>
    /\ package = <<>>
    /\ formula_str = NoFormula
    /\ bucket = [k \in {} |-> [body |-> FileBody(""), public |-> FALSE]]
    /\ cwd = EmptyMap
    /\ exit_code = -1
    /\ reason = ""
    /\ steps = <<>>
    /\ remote_calls = {}
    /\ cred_read = FALSE
    /\ bucket0 = bucket
    /\ cwd0 = cwd
    /\ premise_runs = TRUE
    /\ ow_aborted = FALSE

\* release.py is started: a fresh process with its arguments and environment.
Invoke ==
    /\ pc \in Terminal \cup {"NotStarted"}
    /\ runs < MaxRuns
    /\ \E up \in BOOLEAN, ow \in BOOLEAN, env \in SUBSET CredentialVars,
          sp \in SysPlatforms :
        /\ args' = [upload |-> up, overwrite |-> ow]
        /\ environ' = env
        /\ sys_platform' = sp
    /\ runs' = runs + 1
    /\ pc' = "ParseArgs"
    /\ steps' = <<"Init">>
    /\ platform' = ""
    /\ workdir' = "absent"
    /\ stagingdir' = "absent"
    /\ compile_rc' = -1
    /\ version' = <<>>
    /\ package' = <<>>
    /\ formula_str' = NoFormula
    /\ exit_code' = -1
    /\ reason' = ""
    /\ remote_calls' = {}
    /\ cred_read' = FALSE
    /\ bucket0' = bucket
    /\ cwd0' = cwd
    /\ UNCHANGED <<bucket, cwd, premise_runs, ow_aborted>>

\* Argument parsing, the credentials, and the temporary workspace.
main_init ==
    /\ pc = "ParseArgs"
    /\ \/ /\ NeedsCredentials(args)
          /\ CredentialMissing(environ)
          \* KeyError before the try block: no finally clause runs.
          /\ pc' = "Failure"
          /\ steps' = Append(steps, "Failure")
          /\ exit_code' = 1
          /\ reason' = "MissingCredential"
          /\ cred_read' = TRUE
          /\ premise_runs' = FALSE
          /\ UNCHANGED <<workdir, ow_aborted>>
       \/ /\ ~(NeedsCredentials(args) /\ CredentialMissing(environ))
          /\ cred_read' = NeedsCredentials(args)
          /\ pc' = "DecidePlatform"
          /\ workdir' = "present"
          /\ UNCHANGED <<steps, exit_code, reason, premise_runs, ow_aborted>>
    /\ UNCHANGED <<inputs, platform, stagingdir, compile_rc, version, package,
                   formula_str, bucket, cwd, remote_calls>>

\* "Decide on platform (osx, linux, etc.)"
main_decide_platform ==
    /\ pc = "DecidePlatform"
    /\ \/ /\ StartsWith(sys_platform, "linux")
          /\ platform' = "linux"
          /\ Goto("Compile", steps)
       \/ /\ ~StartsWith(sys_platform, "linux")
          /\ StartsWith(sys_platform, "darwin")
          /\ platform' = "osx"
          /\ Goto("Compile", steps)
       \/ /\ UnsupportedPlatform(sys_platform)
          /\ UNCHANGED platform
          /\ Fail("UnsupportedPlatform", steps)
    /\ UNCHANGED <<inputs, stagingdir, compile_rc, version, package,
                   formula_str, bucket, cwd, remote_calls, cred_read>>

\* "Compile kite tool source code"
main_compile ==
    /\ pc = "Compile"
    /\ \E rc \in {0, 2} :
        /\ compile_rc' = rc
        /\ \/ /\ CompileFailed(rc)
              /\ Fail("CompileFailure", Append(steps, "Compiling"))
           \/ /\ ~CompileFailed(rc)
              /\ Goto("ExtractVersion", Append(steps, "Compiling"))
    /\ UNCHANGED <<inputs, platform, stagingdir, version, package,
                   formula_str, bucket, cwd, remote_calls, cred_read>>

\* "Get the version number from compiled binary"
main_extract_version ==
    /\ pc = "ExtractVersion"
    /\ \/ \* check_output raises: the binary exited non-zero
          /\ UNCHANGED version
          /\ Fail("VersionCommandFailure", Append(steps, "VersionExtraction"))
       \/ \E out \in VersionOutputs :
            /\ version' = Strip(out)
            /\ \/ /\ ~VersionAccepted(Strip(out))
                  /\ Fail("MalformedVersion", Append(steps, "VersionExtraction"))
               \/ /\ VersionAccepted(Strip(out))
                  /\ Goto("Packaging", Append(steps, "VersionExtraction"))
    /\ UNCHANGED <<inputs, platform, stagingdir, compile_rc, package,
                   formula_str, bucket, cwd, remote_calls, cred_read>>

----------------------------------------------------------------------------
\* Platform package builders

\* build_osx, called from main() through globals()["build_osx"].
build_osx ==
    /\ pc = "Packaging"
    /\ platform = "osx"
    /\ \/ \* tarfile.open raises: nothing is written
          /\ UNCHANGED <<package, cwd>>
          /\ Fail("PackagingFailure", Append(steps, "Packaging"))
       \/ \E c \in Contents :
            /\ cwd' = WriteFile(cwd, TarName(version), FileBody(c))
            /\ package' = TarName(version)
            /\ Goto("CheckPackage", Append(steps, "Packaging"))
    /\ UNCHANGED <<inputs, platform, stagingdir, compile_rc, version,
                   formula_str, bucket, remote_calls, cred_read>>

\* build_linux: the staging directory is created.
build_linux_mkdtemp ==
    /\ pc = "Packaging"
    /\ platform = "linux"
    /\ stagingdir' = "present"
    /\ Goto("bl_stage", Append(steps, "Packaging"))
    /\ UNCHANGED <<inputs, platform, compile_rc, version, package,
                   formula_str, bucket, cwd, remote_calls, cred_read>>

\* build_linux: the package tree, the control file, the binary.
build_linux_stage ==
    /\ pc = "bl_stage"
    /\ \/ \* os.mkdir, open/write or shutil.move raises
          /\ stagingdir' = BuildLinuxFinally(stagingdir)
          /\ Fail("PackagingFailure", steps)
       \/ /\ UNCHANGED stagingdir
          /\ Goto("bl_dpkg", steps)
    /\ UNCHANGED <<inputs, platform, compile_rc, version, package,
                   formula_str, bucket, cwd, remote_calls, cred_read>>

\* build_linux: "fakeroot dpkg-deb --build packagedir debfile", then the
\* finally clause.
build_linux_dpkg ==
    /\ pc = "bl_dpkg"
    /\ stagingdir' = BuildLinuxFinally(stagingdir)
    /\ \/ \* check_call raises CalledProcessError
          /\ UNCHANGED <<package, cwd>>
          /\ Fail("PackagingFailure", steps)
       \/ \* the utility exits zero and wrote the package
          \E c \in Contents :
            /\ cwd' = WriteFile(cwd, DebName(version), FileBody(c))
            /\ package' = DebName(version)
            /\ Goto("CheckPackage", steps)
       \/ \* the utility exits zero and no file is at the path it was given
          /\ cwd' = RemoveFile(cwd, DebName(version))
          /\ package' = DebName(version)
          /\ Goto("CheckPackage", steps)
    /\ UNCHANGED <<inputs, platform, compile_rc, version,
                   formula_str, bucket, remote_calls, cred_read>>

\* main(): "if not os.path.exists(package)"
main_check_package ==
    /\ pc = "CheckPackage"
    /\ \/ /\ BuildUnsuccessful(cwd, package)
          /\ Fail("ArtifactMissing", steps)
       \/ /\ ~BuildUnsuccessful(cwd, package)
          /\ Goto("Upload", steps)
    /\ UNCHANGED <<inputs, platform, stagingdir, compile_rc, version, package,
                   formula_str, bucket, cwd, remote_calls, cred_read>>

----------------------------------------------------------------------------
\* "Upload to Amazon S3"

\* boto.connect_s3 and get_bucket('kite-cli'), or nothing without --upload.
main_connect ==
    /\ pc = "Upload"
    /\ \/ /\ ~args.upload
          /\ UNCHANGED remote_calls
          /\ Goto("PostBuild", steps)
       \/ /\ args.upload
          /\ Remote("connect")
          /\ \/ Fail(RemoteAbort, Append(steps, "Uploading"))
             \/ Goto("CheckExisting", Append(steps, "Uploading"))
    /\ UNCHANGED <<inputs, platform, stagingdir, compile_rc, version, package,
                   formula_str, bucket, cwd, cred_read>>

\* package_key.exists() and the overwrite guard.
main_check_existing ==
    /\ pc = "CheckExisting"
    /\ Remote("exists")
    /\ \/ Fail(RemoteAbort, steps)
       \/ /\ AlreadyUploaded(bucket, package, args)
          /\ Fail("AlreadyPublished", steps)
       \/ /\ ~AlreadyUploaded(bucket, package, args)
          /\ Goto("PutPackage", steps)
    /\ UNCHANGED <<inputs, platform, stagingdir, compile_rc, version, package,
                   formula_str, bucket, cwd, cred_read>>

\* package_key.set_contents_from_filename(package)
main_put_package ==
    /\ pc = "PutPackage"
    /\ Remote("put")
    /\ \/ /\ UNCHANGED bucket
          /\ Fail(RemoteAbort, steps)
       \/ /\ bucket' = SetContents(bucket, package, cwd[package])
          /\ Goto("MakePublicPackage", steps)
    /\ UNCHANGED <<inputs, platform, stagingdir, compile_rc, version, package,
                   formula_str, cwd, cred_read>>

\* package_key.make_public()
main_make_public ==
    /\ pc = "MakePublicPackage"
    /\ Remote("make_public")
    /\ \/ /\ UNCHANGED bucket
          /\ Fail(RemoteAbort, steps)
       \/ /\ bucket' = MakePublic(bucket, package)
          /\ Goto("PackageUrl", steps)
    /\ UNCHANGED <<inputs, platform, stagingdir, compile_rc, version, package,
                   formula_str, cwd, cred_read>>

\* url = package_key.generate_url(...)
main_package_url ==
    /\ pc = "PackageUrl"
    /\ Remote("generate_url")
    /\ \/ Fail(RemoteAbort, steps)
       \/ Goto("PostBuild", steps)
    /\ UNCHANGED <<inputs, platform, stagingdir, compile_rc, version, package,
                   formula_str, bucket, cwd, cred_read>>

----------------------------------------------------------------------------
\* "Run post-build actions"

\* postbuild_osx: the URL, the checksum, and the local formula file.
postbuild_osx_formula ==
    /\ pc = "PostBuild"
    /\ platform = "osx"
    /\ \/ \* package_s3_key.generate_url raises
          /\ args.upload
          /\ Remote("generate_url")
          /\ UNCHANGED <<formula_str, cwd>>
          /\ Fail(RemoteAbort, Append(steps, "PostBuild"))
       \/ LET url == IF args.upload THEN GenerateUrl(package)
                                    ELSE LocalUrl(package)
              formula == BREW_FORMULA(url, sha1_file(cwd, package))
          IN  /\ remote_calls' = IF args.upload
                                 THEN remote_calls \cup {"generate_url"}
                                 ELSE remote_calls
              /\ formula_str' = formula
              /\ cwd' = WriteFile(cwd, FormulaFileName, formula)
              /\ \/ /\ FormulaUploadRequested(args)
                    /\ Goto("PutFormula", Append(steps, "PostBuild"))
                 \/ /\ ~FormulaUploadRequested(args)
                    /\ Finish(Append(steps, "PostBuild"))
    /\ UNCHANGED <<inputs, platform, stagingdir, compile_rc, version, package,
                   bucket, cred_read>>

\* formula_key.set_contents_from_string(formula_str)
postbuild_osx_put ==
    /\ pc = "PutFormula"
    /\ Remote("put")
    /\ \/ /\ UNCHANGED bucket
          /\ Fail(RemoteAbort, steps)
       \/ /\ bucket' = SetContents(bucket, FormulaKeyName, formula_str)
          /\ Goto("MakePublicFormula", steps)
    /\ UNCHANGED <<inputs, platform, stagingdir, compile_rc, version, package,
                   formula_str, cwd, cred_read>>

\* formula_key.make_public()
postbuild_osx_make_public ==
    /\ pc = "MakePublicFormula"
    /\ Remote("make_public")
    /\ \/ /\ UNCHANGED bucket
          /\ Fail(RemoteAbort, steps)
       \/ /\ bucket' = MakePublic(bucket, FormulaKeyName)
          /\ Goto("FormulaUrl", steps)
    /\ UNCHANGED <<inputs, platform, stagingdir, compile_rc, version, package,
                   formula_str, cwd, cred_read>>

\* formula_url = formula_key.generate_url(...), the last statement of main()
postbuild_osx_url ==
    /\ pc = "FormulaUrl"
    /\ Remote("generate_url")
    /\ \/ Fail(RemoteAbort, steps)
       \/ Finish(steps)
    /\ UNCHANGED <<inputs, platform, stagingdir, compile_rc, version, package,
                   formula_str, bucket, cwd, cred_read>>

\* postbuild_linux: latest.set_contents_from_filename(package_name), or
\* nothing without --upload.
postbuild_linux_put ==
    /\ pc = "PostBuild"
    /\ platform = "linux"
    /\ \/ /\ ~LatestUploadRequested(args)
          /\ UNCHANGED <<bucket, remote_calls>>
          /\ Finish(Append(steps, "PostBuild"))
       \/ /\ LatestUploadRequested(args)
          /\ Remote("put")
          /\ \/ /\ UNCHANGED bucket
                /\ Fail(RemoteAbort, Append(steps, "PostBuild"))
             \/ /\ bucket' = SetContents(bucket, LatestKeyName, cwd[package])
                /\ Goto("MakePublicLatest", Append(steps, "PostBuild"))
    /\ UNCHANGED <<inputs, platform, stagingdir, compile_rc, version, package,
                   formula_str, cwd, cred_read>>

\* latest.make_public()
postbuild_linux_make_public ==
    /\ pc = "MakePublicLatest"
    /\ Remote("make_public")
    /\ \/ /\ UNCHANGED bucket
          /\ Fail(RemoteAbort, steps)
       \/ /\ bucket' = MakePublic(bucket, LatestKeyName)
          /\ Goto("LatestUrl", steps)
    /\ UNCHANGED <<inputs, platform, stagingdir, compile_rc, version, package,
                   formula_str, cwd, cred_read>>

\* latest.generate_url(...), the last statement of main()
postbuild_linux_url ==
    /\ pc = "LatestUrl"
    /\ Remote("generate_url")
    /\ \/ Fail(RemoteAbort, steps)
       \/ Finish(steps)
    /\ UNCHANGED <<inputs, platform, stagingdir, compile_rc, version, package,
                   formula_str, bucket, cwd, cred_read>>

----------------------------------------------------------------------------
Next ==
    \/ Invoke
    \/ main_init
    \/ main_decide_platform
    \/ main_compile
    \/ main_extract_version
    \/ build_osx
    \/ build_linux_mkdtemp
    \/ build_linux_stage
    \/ build_linux_dpkg
    \/ main_check_package
    \/ main_connect
    \/ main_check_existing
    \/ main_put_package
    \/ main_make_public
    \/ main_package_url
    \/ postbuild_osx_formula
    \/ postbuild_osx_put
    \/ postbuild_osx_make_public
    \/ postbuild_osx_url
    \/ postbuild_linux_put
    \/ postbuild_linux_make_public
    \/ postbuild_linux_url

Spec == Init /\ [][Next]_vars

----------------------------------------------------------------------------
\* Vocabulary of the properties

Entered(step) == \E i \in 1..Len(steps) : steps[i] = step

Called(op) == op \in remote_calls

AllRemoteOps == {"connect", "exists", "put", "make_public", "generate_url"}

\* The run is past package_key.set_contents_from_filename(package).
AfterPackagePut ==
    /\ args.upload
    /\ \/ pc \in {"MakePublicPackage", "PackageUrl", "PostBuild", "PutFormula",
                  "MakePublicFormula", "FormulaUrl", "MakePublicLatest",
                  "LatestUrl", "Done"}
       \/ pc = "Failure" /\ reason = RemoteAbort /\ Called("make_public")

\* C1: with --upload, a run that finds its versioned key already in the bucket
\* and was not given --overwrite fails with exit code 1, leaves the bucket as
\* it was, uploads nothing and runs no post-build step; a run given --overwrite
\* is never refused, and once it has uploaded, the object at its key is the
\* file this run packaged.
C1_PublishIdempotency ==
    /\ (/\ args.upload /\ ~args.overwrite
        /\ Called("exists")
        /\ package \in DOMAIN bucket0)
       => /\ pc = "Failure"
          /\ exit_code = 1
          /\ bucket = bucket0
          /\ ~Called("put")
          /\ ~Entered("PostBuild")
          /\ ~Entered("Done")
    /\ (args.upload /\ args.overwrite)
       => /\ reason # "AlreadyPublished"
          /\ AfterPackagePut
             => /\ package \in DOMAIN bucket
                /\ bucket[package].body = cwd[package]
          /\ pc = "Done" => exit_code = 0

C1_Witness ==
    /\ pc = "Failure"
    /\ reason = "AlreadyPublished"
    /\ args.upload /\ ~args.overwrite
    /\ package \in DOMAIN bucket0
    /\ bucket0[package].body # cwd[package]

\* C2: without --upload a run performs no S3 operation, does not read the
\* credential variables, never fails for a missing credential, and leaves
\* the bucket as it was.
C2_NoUploadNoRemote ==
    (pc # "NotStarted" /\ ~args.upload)
    => /\ remote_calls = {}
       /\ ~cred_read
       /\ reason # "MissingCredential"
       /\ bucket = bucket0

C2_Witness ==
    /\ pc = "Done"
    /\ ~args.upload
    /\ environ = {}
    /\ platform = "linux"
    /\ DOMAIN bucket0 # {}

\* C3: in every terminal state of a run, Done or Failure for whatever cause,
\* the temporary workspace main() created no longer exists.
C3_WorkspaceRemoved ==
    pc \in Terminal => workdir # "present"

C3_Witness ==
    /\ pc = "Failure"
    /\ reason = RemoteAbort
    /\ Called("put")
    /\ workdir = "removed"

StepRank(step) ==
    CASE step = "Init" -> 0
      [] step = "Compiling" -> 1
      [] step = "VersionExtraction" -> 2
      [] step = "Packaging" -> 3
      [] step = "Uploading" -> 4
      [] step = "PostBuild" -> 5
      [] step = "Done" -> 6
      [] step = "Failure" -> 7

\* C4: a run enters its steps only in the order Init, Compiling,
\* VersionExtraction, Packaging, Uploading, PostBuild, Done, with Failure
\* last when it occurs: the version is read only after the compiler exited
\* zero, packaging starts only with an accepted version, the package is
\* uploaded only when the builder's path exists on disk, a post-build action
\* runs only after the upload step completed or was skipped, and nothing runs
\* after Failure.
C4_StepOrder ==
    /\ \A i \in 1..(Len(steps) - 1) : StepRank(steps[i]) < StepRank(steps[i + 1])
    /\ Entered("VersionExtraction") => (Entered("Compiling") /\ compile_rc = 0)
    /\ Entered("Packaging")
       => (Entered("VersionExtraction") /\ Len(Split(version)) = 3)
    /\ Entered("Uploading") => (Entered("Packaging") /\ package \in DOMAIN cwd)
    /\ Called("put") => (Entered("Uploading") \/ Entered("PostBuild"))
    /\ Entered("PostBuild")
       => /\ Entered("Packaging")
          /\ package \in DOMAIN cwd
          /\ IF args.upload
             THEN /\ Entered("Uploading")
                  /\ AllRemoteOps \subseteq remote_calls
                  /\ package \in DOMAIN bucket
                  /\ bucket[package] = [body |-> cwd[package], public |-> TRUE]
             ELSE ~Entered("Uploading")
    /\ Entered("Done") => (Entered("PostBuild") /\ pc = "Done")
    /\ Entered("Failure") => pc = "Failure"

C4_Witness ==
    /\ pc = "Done"
    /\ args.upload
    /\ platform = "osx"
    /\ steps = <<"Init", "Compiling", "VersionExtraction", "Packaging",
                 "Uploading", "PostBuild", "Done">>

\* C5: the version check accepts the version the binary reported, so that the
\* run proceeds to Packaging, if and only if it splits into exactly 3
\* non-empty dot-separated components; otherwise the run fails before any
\* packaging or upload.
C5_VersionCheck ==
    (Entered("VersionExtraction") /\ reason # "VersionCommandFailure")
    => /\ (reason # "MalformedVersion") <=> ThreeNonEmptyComponents(version)
       /\ ~ThreeNonEmptyComponents(version)
          => /\ pc = "Failure"
             /\ ~Entered("Packaging")
             /\ remote_calls = {}

\* C6: the "latest" alias upload of postbuild_linux always overwrites: once it
\* has written, whatever kite-latest-linux.deb held before and with or
\* without --overwrite, that key holds the package file of this run, and it
\* is public when the run completes.
C6_LatestAlwaysOverwrites ==
    LET latest == <<"kite-latest-linux.deb">>
    IN  (platform = "linux" /\ args.upload)
        => /\ pc \in {"MakePublicLatest", "LatestUrl", "Done"}
              => /\ latest \in DOMAIN bucket
                 /\ bucket[latest].body = cwd[package]
           /\ pc \in {"LatestUrl", "Done"}
              => /\ latest \in DOMAIN bucket
                 /\ bucket[latest].public

C6_Witness ==
    LET latest == <<"kite-latest-linux.deb">>
    IN  /\ pc = "Done"
        /\ platform = "linux"
        /\ args.upload /\ ~args.overwrite
        /\ latest \in DOMAIN bucket0
        /\ bucket0[latest].body # cwd[package]
        /\ bucket[latest] = [body |-> cwd[package], public |-> TRUE]

\* C7: once build_linux has returned or raised, for whatever cause, the
\* staging directory it created does not exist.
C7_StagingRemoved ==
    stagingdir = "present" => pc \in {"bl_stage", "bl_dpkg"}

C7_Witness ==
    /\ pc = "Failure"
    /\ reason = "PackagingFailure"
    /\ platform = "linux"
    /\ stagingdir = "removed"

\* C8: on an unsupported platform tag the run exits with code 1, the compiler
\* is never invoked, no builder runs, nothing is written to the working
\* directory and no S3 operation is performed.
C8_UnsupportedPlatform ==
    (pc # "NotStarted" /\ sys_platform \notin {"linux", "linux2", "darwin"})
    => /\ compile_rc = -1
       /\ ~Entered("Compiling")
       /\ ~Entered("Packaging")
       /\ package = <<>>
       /\ cwd = cwd0
       /\ bucket = bucket0
       /\ remote_calls = {}
       /\ pc # "Done"
       /\ pc = "Failure" => exit_code = 1

C8_Witness ==
    /\ pc = "Failure"
    /\ reason = "UnsupportedPlatform"
    /\ sys_platform = "win32"
    /\ args.upload
    /\ DOMAIN cwd0 # {}

\* C9: a completed postbuild_osx has written the rendered formula (the
\* package's URL and the sha1 of the package file) to the local file kite.rb;
\* with --upload the same text is the object at key kite.rb, whatever was
\* there and with or without --overwrite; without --upload the bucket is
\* as it was.
C9_FormulaPublished ==
    LET name == <<"kite.rb">>
    IN  (platform = "osx" /\ pc = "Done")
        => /\ name \in DOMAIN cwd
           /\ cwd[name].kind = "formula"
           /\ cwd[name].sha1 = Sha1(cwd[package].bytes)
           /\ cwd[name].url = IF args.upload
                              THEN <<"https://kite-cli.s3.amazonaws.com/">> \o package
                              ELSE <<"http://127.0.0.1:8000/">> \o package
           /\ args.upload
              => /\ name \in DOMAIN bucket
                 /\ bucket[name].body = cwd[name]
           /\ ~args.upload => bucket = bucket0

C9_Witness ==
    LET name == <<"kite.rb">>
    IN  /\ platform = "osx"
        /\ pc = "Done"
        /\ args.upload /\ ~args.overwrite
        /\ name \in DOMAIN bucket0
        /\ bucket0[name].body # bucket[name].body

\* The formula in the bucket, when there is one, references an object of the
\* bucket whose current content has the sha1 the formula records.
FormulaConsistent ==
    <<"kite.rb">> \in DOMAIN bucket
    => \E k \in DOMAIN bucket :
         /\ GenerateUrl(k) = bucket[<<"kite.rb">>].body.url
         /\ Sha1(bucket[k].body.bytes) = bucket[<<"kite.rb">>].body.sha1

====
